---- MODULE Spec2Model ----
(***************************************************************************)
(* The audio resampler of src/codec/audio/resampler.c as a state machine:  *)
(* the AudioResampler struct, the reference-counted sample buffers its     *)
(* frames point to, the consumer that holds emitted frames, and history    *)
(* variables recording what the conversion capability produced and what    *)
(* the pull operation emitted.                                             *)
(*                                                                         *)
(* libswresample and the libavutil frame functions are not part of the     *)
(* repository.  The conversion capability is modelled as an opaque,        *)
(* nondeterministic producer of numbered samples; the frame functions      *)
(* (av_frame_alloc, av_frame_get_buffer, av_frame_clone, av_frame_free,    *)
(* av_frame_is_writable) are modelled by reference counts on buffers.      *)
(* av_frame_clone is taken to succeed, as in the interface of spec §6.     *)
(*                                                                         *)
(* The rescale utility of src/time.c is a pure function; it has its own    *)
(* specification, SpecTime, which draws the arguments of one call and      *)
(* applies it.  SpecPts does the same for the timestamp arithmetic of push *)
(* over a wider range of timestamps and rates than Spec visits.            *)
(***************************************************************************)
EXTENDS Integers, Sequences, FiniteSets, TLC

\* ------------------------------------------------------------------ bounds
\* number of push and pull calls made on the resampler
MaxCalls == 5
\* total number of samples the conversion capability produces
MaxProduced == 4
\* number of emitted frames the consumer holds at the same time
MaxHeld == 1
\* width of a timestamp in the model (int64_t in the code)
PtsBits == 8
\* width of uint32_t in the model of time.c; int64_t has twice the width
TimeBits == 4
\* number of calls before the states in which single pushes and pulls are compared
MaxPriorCalls == 4

\* ------------------------------------------------------- program constants
\* safety margin added to the internal delay on flush
FlushMargin == 3

\* AV_NOPTS_VALUE is the smallest value of the timestamp type
AV_NOPTS_VALUE == -(2 ^ (PtsBits - 1))

\* return values of push and pull
Consumed == 1
NotReady == 0
AllocError == -1
\* negative results a libswresample call can report (AVERROR codes)
CapabilityErrors == {-22}

\* configurations: target_frame_samples (0 = pass-through)
FrameSizes == {0, 2}
\* <<source_sample_rate, target_sample_rate>>
Rates == {<<2, 3>>}
\* timestamps of pushed frames
InputPts == {AV_NOPTS_VALUE, 0, 2}
\* sample counts of pushed frames
InputSamples == {2}
\* values swr_get_delay can report
Delays == {0}
\* what the read of frame->pts through a null frame pointer can do: trap, or
\* yield whatever the address holds
NullReads == {[trap |-> TRUE, pts |-> 0]} \cup
             {[trap |-> FALSE, pts |-> g] : g \in {AV_NOPTS_VALUE, 0}}
\* by how much swr_next_pts may move a timestamp (its compensation)
Compensation == {0}

BufIds == 1 .. (MaxHeld + 2)

Min(a, b) == IF a < b THEN a ELSE b

\* C integer division truncates toward zero
CDiv(a, b) == IF a >= 0 THEN a \div b ELSE -((-a) \div b)

\* a null AVFrame pointer; a frame is its buffer reference, nb_samples and pts
NULL == [buf |-> 0, nb_samples |-> 0, pts |-> 0]

\* the end-of-input argument of push (frame == NULL)
NoFrame == [null |-> TRUE, nb_samples |-> 0, pts |-> 0]

InputFrames == {[null |-> FALSE, nb_samples |-> n, pts |-> p] : n \in InputSamples, p \in InputPts}

VARIABLES
    target_frame_samples,   \* config
    source_sample_rate,     \* config
    target_sample_rate,     \* config
    tmp_frame,              \* scratch frame (or NULL)
    output_frame,           \* accumulation frame (or NULL)
    tmp_frame_capacity,
    offset,                 \* read cursor into tmp_frame
    flush,
    bufs,                   \* buffer id -> [refs, data]
    held,                   \* frames the consumer holds
    produced,               \* number of samples converted so far
    op, ret, crashed,       \* last call, its return value, process died
    ncalls,                 \* number of calls made
    \* history variables
    stamp,                  \* sample -> time of that sample (batch pts + index)
    nemitted,               \* number of samples in all frames returned so far
    last,                   \* the frame returned last
    short,                  \* a frame shorter than the frame size was returned
    stage,                  \* pushes that passed the precondition: 0 only real frames,
                            \* 1 then one end of input (consumed), 3 (failed), 2 more
    ordered, last_in, last_end, prev_pts,   \* pushes so far are in time order
    drain_budget, drain_calls, drain_frames,  \* pulls since end of input
    \* src/time.c
    rescale_call,           \* the arguments of a call of ffw_rescale_rnd, or NoCall
    rescale_ret,            \* what the call did, or NoResult
    \* timestamp arithmetic of push on its own
    pts_call,               \* frame pts, the two rates, the capability's compensation
    pts_ret,                \* the values computed
    \* src/codec/audio/filter.c
    sink,                   \* the buffer sink: frames waiting in it, end of stream
    fed,                    \* number of frames the graph has put in the sink
    slot,                   \* the caller's AVFrame* variable
    take                    \* the last call of ffw_filtergraph_take_frame

vars == <<target_frame_samples, source_sample_rate, target_sample_rate, tmp_frame,
          output_frame, tmp_frame_capacity, offset, flush, bufs, held, produced,
          op, ret, crashed, ncalls, stamp, nemitted, last, short, stage,
          ordered, last_in, last_end, prev_pts, drain_budget, drain_calls, drain_frames,
          rescale_call, rescale_ret, pts_call, pts_ret, sink, fed, slot, take>>

filtervars == <<sink, fed, slot, take>>

timevars == <<rescale_call, rescale_ret>>

ptsvars == <<pts_call, pts_ret>>

NoCall == [n |-> 0, aq_num |-> 0, aq_den |-> 0, bq_num |-> 0, bq_den |-> 0, rnd |-> 0]
NoResult == [done |-> FALSE, trap |-> FALSE, a |-> 0, b |-> 0, ret |-> 0]
NoPtsCall == [pts |-> 0, source_sample_rate |-> 1, target_sample_rate |-> 1, shift |-> 0]
NoPtsResult == [done |-> FALSE, orig_pts |-> 0, new_pts |-> 0, pts |-> 0]

\* an AVFrame* that is NULL, and one that points to a frame without data
NullAVFrame == [null |-> TRUE, data |-> 0]
BlankAVFrame == [null |-> FALSE, data |-> 0]

NoTake == [done |-> FALSE, ret |-> 0, fail |-> "none", answer |-> 0, received |-> 0,
           frame |-> NullAVFrame]

\* no filter graph is in use
NoFilter ==
    /\ sink = [frames |-> <<>>, eof |-> FALSE]
    /\ fed = 0
    /\ slot = NullAVFrame
    /\ take = NoTake

\* ------------------------------------------------------- frame capability

av_frame_is_writable(h, f) == h[f.buf].refs = 1

\* drop one reference; the storage goes away with the last one
Unref(h, b) ==
    IF b = 0 THEN h
    ELSE IF h[b].refs = 1 THEN [h EXCEPT ![b] = [refs |-> 0, data |-> <<>>]]
    ELSE [h EXCEPT ![b].refs = @ - 1]

\* the allocator's choice among the free buffers: which one is arbitrary, so a
\* scratch frame takes the lowest and an accumulation frame the highest
FreeBuf(h, low) ==
    CHOOSE b \in BufIds :
        /\ h[b].refs = 0
        /\ \A c \in BufIds : h[c].refs = 0 => IF low THEN b <= c ELSE b >= c

\* samples 1..n of a frame's buffer
Samples(h, f) == IF f.buf = 0 THEN <<>> ELSE SubSeq(h[f.buf].data, 1, f.nb_samples)

\* alloc_frame: a fresh frame over a fresh buffer of nb_samples samples, or NULL.
\* av_frame_get_buffer refuses a frame without samples.
alloc_frame(r, nb_samples, alloc_ok, low) ==
    IF alloc_ok /\ nb_samples > 0
    THEN LET b == FreeBuf(r.bufs, low)
         IN [frame |-> [buf |-> b, nb_samples |-> nb_samples, pts |-> AV_NOPTS_VALUE],
             bufs |-> [r.bufs EXCEPT ![b] = [refs |-> 1, data |-> [i \in 1 .. nb_samples |-> 0]]]]
    ELSE [frame |-> NULL, bufs |-> r.bufs]

\* ------------------------------------------------------------ arithmetic

\* a truncating division in place of the rounded one
TruncatedDiv(a, b) == IF a >= 0 THEN a \div b ELSE -((-a) \div b)

\* av_rescale(a, b, c): a * b / c rounded to nearest, halves away from zero;
\* INT64_MIN (the value of AV_NOPTS_VALUE) when the result does not fit
av_rescale(a, b, c) ==
    LET q == IF a >= 0 THEN (a * b + (c \div 2)) \div c
             ELSE -(((-a) * b + (c \div 2)) \div c)
    IN  IF q > -AV_NOPTS_VALUE - 1 \/ q < AV_NOPTS_VALUE THEN AV_NOPTS_VALUE ELSE q

\* libavutil ROUNDED_DIV(a, b)
ROUNDED_DIV(a, b) ==
    IF a >= 0 THEN CDiv(a + (b \div 2), b) ELSE CDiv(a - (b \div 2), b)

\* the value handed to swr_next_pts for an input timestamp
OrigPts(r, pts) ==
    av_rescale(pts, 1 * r.target_sample_rate * r.source_sample_rate, r.source_sample_rate)

\* swr_next_pts is opaque: the timestamp, moved by the compensation in effect
swr_next_pts(orig, shift) == orig + shift

\* swr_get_out_samples is opaque: an upper bound on the output, or an error
OutSamplesResults(in_samples) == CapabilityErrors \cup {in_samples, in_samples + 1}

\* ------------------------------------------------------------------ state

\* the resampler and its buffers as one record; out is the caller's frame slot
R == [target_frame_samples |-> target_frame_samples,
      source_sample_rate |-> source_sample_rate,
      target_sample_rate |-> target_sample_rate,
      tmp_frame |-> tmp_frame, output_frame |-> output_frame,
      tmp_frame_capacity |-> tmp_frame_capacity, offset |-> offset, flush |-> flush,
      bufs |-> bufs, produced |-> produced,
      ret |-> ret, crashed |-> crashed, out |-> NULL]

NoLast == [samples |-> <<>>, pts |-> 0, flush |-> FALSE]

Init ==
    /\ target_frame_samples \in FrameSizes
    /\ \E rt \in Rates : source_sample_rate = rt[1] /\ target_sample_rate = rt[2]
    /\ tmp_frame = NULL
    /\ output_frame = NULL
    /\ tmp_frame_capacity = 0
    /\ offset = 0
    /\ flush = FALSE
    /\ bufs = [b \in BufIds |-> [refs |-> 0, data |-> <<>>]]
    /\ held = <<>>
    /\ produced = 0
    /\ op = "new"
    /\ ret = 0
    /\ crashed = FALSE
    /\ ncalls = 0
    /\ stamp = <<>>
    /\ nemitted = 0
    /\ last = NoLast
    /\ short = FALSE
    /\ stage = 0
    /\ ordered = TRUE
    /\ last_in = AV_NOPTS_VALUE
    /\ last_end = AV_NOPTS_VALUE
    /\ prev_pts = AV_NOPTS_VALUE
    /\ drain_budget = -1
    /\ drain_calls = 0
    /\ drain_frames = 0
    /\ rescale_call = NoCall
    /\ rescale_ret = NoResult
    /\ pts_call = NoPtsCall
    /\ pts_ret = NoPtsResult
    /\ NoFilter

Config == <<target_frame_samples, source_sample_rate, target_sample_rate>>

\* ------------------------------------------------------------------- push

\* a precondition that lets the last unread sample be overwritten
PushRejectedButLast(r) == r.tmp_frame.buf # 0 /\ r.offset + 1 < r.tmp_frame.nb_samples

\* the internal frame has not been consumed yet
PushRejected(r) == r.tmp_frame.buf # 0 /\ r.offset < r.tmp_frame.nb_samples

\* a scratch frame replaced by every push
NeedReallocAlways(r, required_capacity) == TRUE

\* a scratch frame replaced only when missing or too small
NeedReallocBySize(r, required_capacity) ==
    r.tmp_frame.buf = 0 \/ required_capacity > r.tmp_frame_capacity

\* the scratch frame has to be replaced before converting into it
NeedRealloc(r, required_capacity) ==
    \/ r.tmp_frame.buf = 0
    \/ ~av_frame_is_writable(r.bufs, r.tmp_frame)
    \/ required_capacity > r.tmp_frame_capacity

\* av_frame_free(&tmp_frame); tmp_frame = alloc_frame(...); record the capacity
ReallocTmp(r, required_capacity, alloc_ok) ==
    LET freed == [r EXCEPT !.bufs = Unref(r.bufs, r.tmp_frame.buf), !.tmp_frame = NULL]
        a == alloc_frame(freed, required_capacity, alloc_ok, TRUE)
    IN IF a.frame.buf = 0
       THEN freed
       ELSE [freed EXCEPT !.tmp_frame = a.frame, !.bufs = a.bufs,
                          !.tmp_frame_capacity = required_capacity]

\* swr_convert_frame into the scratch frame: conv samples are written from the
\* start of the buffer and become the frame's sample count (0 on error)
swr_convert_frame(r, conv) ==
    IF conv < 0
    THEN [r EXCEPT !.tmp_frame.nb_samples = 0]
    ELSE [r EXCEPT !.tmp_frame.nb_samples = conv,
                   !.bufs[r.tmp_frame.buf].data =
                       [i \in DOMAIN @ |-> IF i <= conv THEN r.produced + i ELSE @[i]],
                   !.produced = @ + conv]

\* the timestamp of the converted batch for a pushed frame
BatchPts(r, pts, shift) ==
    IF pts # AV_NOPTS_VALUE
    THEN ROUNDED_DIV(swr_next_pts(OrigPts(r, pts), shift), r.source_sample_rate)
    ELSE AV_NOPTS_VALUE

\* an early return placed after the flushing flag is set
RejectAfterFlag(r, frame) == [r EXCEPT !.ret = NotReady, !.flush = (@ \/ frame.null)]

\* the early return of a push that finds unread samples
Reject(r, frame) == [r EXCEPT !.ret = NotReady]

\* ffw_audio_resampler_push_frame.  frame is the argument (NoFrame for NULL);
\* required_capacity, alloc_ok, conv and shift are what the capabilities answer;
\* ub is what the read of frame->pts does when frame is NULL (one of NullReads).
push_frame(r, frame, required_capacity, alloc_ok, conv, shift, ub) ==
    IF PushRejected(r) THEN Reject(r, frame)
    ELSE
    LET r1 == IF frame.null THEN [r EXCEPT !.flush = TRUE] ELSE r
    IN  IF required_capacity < 0 THEN [r1 EXCEPT !.ret = required_capacity]
        ELSE
        LET r2 == IF NeedRealloc(r1, required_capacity)
                  THEN ReallocTmp(r1, required_capacity, alloc_ok)
                  ELSE r1
        IN  IF r2.tmp_frame.buf = 0 THEN [r2 EXCEPT !.ret = AllocError]
            ELSE
            LET r3 == [r2 EXCEPT !.tmp_frame.nb_samples = 0, !.offset = 0]
                r4 == swr_convert_frame(r3, conv)
            IN  IF conv < 0 THEN [r4 EXCEPT !.ret = conv]
                ELSE IF frame.null /\ ub.trap THEN [r4 EXCEPT !.crashed = TRUE]
                ELSE
                LET in_pts == IF frame.null THEN ub.pts ELSE frame.pts
                IN  [r4 EXCEPT !.tmp_frame.pts = BatchPts(r4, in_pts, shift),
                               !.ret = Consumed]

\* write a call's result back to the variables
Commit(r, call) ==
    /\ tmp_frame' = r.tmp_frame
    /\ output_frame' = r.output_frame
    /\ tmp_frame_capacity' = r.tmp_frame_capacity
    /\ offset' = r.offset
    /\ flush' = r.flush
    /\ produced' = r.produced
    /\ ret' = r.ret
    /\ crashed' = r.crashed
    /\ op' = call
    /\ ncalls' = ncalls + 1
    /\ UNCHANGED <<Config, timevars, ptsvars, filtervars>>

\* history of a push: the times of the new samples, the order of the pushes so
\* far, and the start of a drain
PushHistory(r, frame) ==
    LET effective == ~PushRejected(R)
        consumed == effective /\ ~r.crashed /\ r.ret = Consumed
        n == r.produced - produced
        bpts == r.tmp_frame.pts
        unknown == IF frame.null THEN bpts = AV_NOPTS_VALUE ELSE frame.pts = AV_NOPTS_VALUE
        ord == IF ~effective THEN ordered
               ELSE IF frame.null THEN FALSE
               ELSE IF consumed
                    THEN ordered /\ frame.pts # AV_NOPTS_VALUE
                                 /\ frame.pts > last_in /\ bpts >= last_end
                    ELSE ordered
    IN  /\ stamp' = [i \in DOMAIN stamp \cup (produced + 1 .. produced + n) |->
                        IF i <= produced THEN stamp[i]
                        ELSE IF unknown THEN AV_NOPTS_VALUE
                        ELSE bpts + (i - produced - 1)]
        /\ ordered' = ord
        /\ last_in' = IF ~ord THEN AV_NOPTS_VALUE ELSE IF consumed THEN frame.pts ELSE last_in
        /\ last_end' = IF ~ord THEN AV_NOPTS_VALUE ELSE IF consumed THEN bpts + n ELSE last_end
        /\ prev_pts' = IF ord THEN prev_pts ELSE AV_NOPTS_VALUE
        /\ stage' = IF ~effective THEN stage
                    ELSE IF stage = 0 THEN (IF ~frame.null THEN 0 ELSE IF consumed THEN 1 ELSE 3)
                    ELSE 2
        /\ drain_budget' = IF ~effective THEN drain_budget
                           ELSE IF frame.null /\ consumed
                                THEN r.output_frame.nb_samples + n + 1
                                ELSE -1
        /\ drain_calls' = IF effective THEN 0 ELSE drain_calls
        /\ drain_frames' = IF effective THEN 0 ELSE drain_frames
        /\ last' = NoLast
        /\ UNCHANGED <<held, nemitted, short>>

CanCall == ~crashed /\ ncalls < MaxCalls

\* The answers of the capabilities that a push can depend on.  An answer the
\* call never asks for (it returned before) is not enumerated.
CapacityAnswers(frame) ==
    IF PushRejected(R) THEN {0}
    ELSE IF frame.null THEN {delay + FlushMargin : delay \in Delays}
    ELSE OutSamplesResults(frame.nb_samples)

AllocAnswers(required_capacity) ==
    IF PushRejected(R) \/ required_capacity < 0 \/ ~NeedRealloc(R, required_capacity)
    THEN {TRUE}
    ELSE BOOLEAN

\* what swr_convert_frame can answer for a buffer of required_capacity samples
ConvResults(required_capacity, alloc_ok) ==
    IF \/ PushRejected(R)
       \/ required_capacity < 0
       \/ (NeedRealloc(R, required_capacity) /\ ~(alloc_ok /\ required_capacity > 0))
    THEN {0}
    ELSE CapabilityErrors \cup (0 .. Min(required_capacity, MaxProduced - produced))

ShiftAnswers(frame, conv) ==
    IF PushRejected(R) \/ conv < 0 \/ frame.null \/ frame.pts = AV_NOPTS_VALUE
    THEN {0}
    ELSE Compensation

NullReadAnswers(conv) == IF PushRejected(R) \/ conv < 0 THEN {[trap |-> FALSE, pts |-> 0]} ELSE NullReads

\* push of a real frame
PushFrame ==
    /\ CanCall
    /\ \E frame \in InputFrames :
       \E required_capacity \in CapacityAnswers(frame) :
       \E alloc_ok \in AllocAnswers(required_capacity) :
       \E conv \in ConvResults(required_capacity, alloc_ok) :
       \E shift \in ShiftAnswers(frame, conv) :
          LET r == push_frame(R, frame, required_capacity, alloc_ok, conv, shift,
                              [trap |-> FALSE, pts |-> 0])
          IN  /\ Commit(r, "push")
              /\ bufs' = r.bufs
              /\ PushHistory(r, frame)

\* push of the end-of-input sentinel
PushEof ==
    /\ CanCall
    /\ \E required_capacity \in CapacityAnswers(NoFrame) :
       \E alloc_ok \in AllocAnswers(required_capacity) :
       \E conv \in ConvResults(required_capacity, alloc_ok) :
       \E ub \in NullReadAnswers(conv) :
          LET r == push_frame(R, NoFrame, required_capacity, alloc_ok, conv, 0, ub)
          IN  /\ Commit(r, "push_eof")
              /\ bufs' = r.bufs
              /\ PushHistory(r, NoFrame)

\* ------------------------------------------------------------------- pull

\* av_frame_clone into the caller's slot: a new frame sharing the buffer of f
av_frame_clone(r, f) == [r EXCEPT !.out = f, !.bufs[f.buf].refs = @ + 1]

\* pass-through that leaves the scratch frame's sample count in place
TakePassThroughKeepsBatch(r) ==
    LET r1 == [r EXCEPT !.flush = FALSE]
    IN  IF r1.tmp_frame.nb_samples > 0
        THEN [av_frame_clone(r1, r1.tmp_frame) EXCEPT !.ret = 1]
        ELSE [r1 EXCEPT !.ret = NotReady]

\* pass-through: hand out the whole scratch frame
TakePassThrough(r) ==
    LET r1 == [r EXCEPT !.flush = FALSE]
    IN  IF r1.tmp_frame.nb_samples > 0
        THEN [av_frame_clone(r1, r1.tmp_frame) EXCEPT !.tmp_frame.nb_samples = 0,
                                                      !.ret = 1]
        ELSE [r1 EXCEPT !.ret = NotReady]

\* an accumulation frame replaced on every pull
NeedOutputAlways(r) == TRUE

\* the accumulation frame has to be (re)created
NeedOutput(r) ==
    r.output_frame.buf = 0 \/ ~av_frame_is_writable(r.bufs, r.output_frame)

\* av_frame_free(&output_frame); output_frame = alloc_frame(...); nb_samples = 0
ReallocOutput(r, alloc_ok) ==
    LET freed == [r EXCEPT !.bufs = Unref(r.bufs, r.output_frame.buf), !.output_frame = NULL]
        a == alloc_frame(freed, r.target_frame_samples, alloc_ok, FALSE)
    IN IF a.frame.buf = 0
       THEN freed
       ELSE [freed EXCEPT !.output_frame = [a.frame EXCEPT !.nb_samples = 0], !.bufs = a.bufs]

\* a pull that copies nothing
CopySamplesNone(available_samples, required_samples) == 0

\* how many samples one pull copies
CopySamples(available_samples, required_samples) ==
    IF available_samples > required_samples THEN required_samples ELSE available_samples

\* timestamp of the batch start instead of the sample copied
OutputPtsBatchStart(r) ==
    IF r.output_frame.nb_samples = 0 THEN r.tmp_frame.pts ELSE r.output_frame.pts

\* the read cursor subtracted instead of added
OutputPtsBackwards(r) ==
    IF r.output_frame.nb_samples = 0 THEN r.tmp_frame.pts - r.offset ELSE r.output_frame.pts

\* timestamp of the accumulation frame, set with the first copy into it
OutputPts(r) ==
    IF r.output_frame.nb_samples = 0 THEN r.tmp_frame.pts + r.offset ELSE r.output_frame.pts

\* a copy that moves the read cursor one sample too far
CopyStepSkips(r, copy_samples) ==
    IF copy_samples > 0
    THEN [r EXCEPT !.bufs[r.output_frame.buf].data =
                       [i \in DOMAIN @ |->
                           IF i > r.output_frame.nb_samples
                              /\ i <= r.output_frame.nb_samples + copy_samples
                           THEN r.bufs[r.tmp_frame.buf].data[r.offset + (i - r.output_frame.nb_samples)]
                           ELSE @[i]],
                   !.output_frame.pts = OutputPts(r),
                   !.offset = @ + copy_samples + 1,
                   !.output_frame.nb_samples = @ + copy_samples]
    ELSE r

\* av_samples_copy and the cursor updates
CopyStep(r, copy_samples) ==
    IF copy_samples > 0
    THEN [r EXCEPT !.bufs[r.output_frame.buf].data =
                       [i \in DOMAIN @ |->
                           IF i > r.output_frame.nb_samples
                              /\ i <= r.output_frame.nb_samples + copy_samples
                           THEN r.bufs[r.tmp_frame.buf].data[r.offset + (i - r.output_frame.nb_samples)]
                           ELSE @[i]],
                   !.output_frame.pts = OutputPts(r),
                   !.offset = @ + copy_samples,
                   !.output_frame.nb_samples = @ + copy_samples]
    ELSE r

\* hands out whatever has accumulated, flushing or not
HoldBackOnlyEmpty(r) == ~r.flush /\ r.output_frame.nb_samples = 0

\* holds a partial frame back even while flushing
HoldBackPartial(r) == r.output_frame.nb_samples < r.target_frame_samples

\* nothing is handed out yet
HoldBack(r) == ~r.flush /\ r.output_frame.nb_samples < r.target_frame_samples

\* the flushing flag never cleared by an emission
FlushKept(r) == r.flush

\* the flushing flag cleared by every emission
FlushDropped(r) == FALSE

\* the flush flag after an emission
FlushAfterEmit(r) == IF r.offset >= r.tmp_frame.nb_samples THEN FALSE ELSE r.flush

\* an emission that leaves the count of the accumulation frame in place
EmitOutputKeepsCount(r) ==
    LET c == av_frame_clone(r, r.output_frame)
    IN  [c EXCEPT !.flush = FlushAfterEmit(c), !.ret = 1]

\* clone the accumulation frame for the caller and reuse it
EmitOutput(r) ==
    LET c == av_frame_clone(r, r.output_frame)
    IN  [c EXCEPT !.output_frame.nb_samples = 0, !.flush = FlushAfterEmit(c), !.ret = 1]

\* fixed frame size: fill the accumulation frame from the scratch frame
TakeFixed(r, alloc_ok) ==
    LET r1 == IF NeedOutput(r) THEN ReallocOutput(r, alloc_ok) ELSE r
    IN  IF r1.output_frame.buf = 0 THEN [r1 EXCEPT !.ret = AllocError]
        ELSE
        LET required_samples == r1.target_frame_samples - r1.output_frame.nb_samples
            available_samples == r1.tmp_frame.nb_samples - r1.offset
            r2 == CopyStep(r1, CopySamples(available_samples, required_samples))
        IN  IF HoldBack(r2) THEN [r2 EXCEPT !.ret = NotReady] ELSE EmitOutput(r2)

\* a pull without the check for a scratch frame
take_frame_unchecked(r, alloc_ok) ==
    IF r.target_frame_samples = 0 THEN TakePassThrough(r) ELSE TakeFixed(r, alloc_ok)

\* ffw_audio_resampler_take_frame
take_frame(r, alloc_ok) ==
    IF r.tmp_frame.buf = 0 THEN [r EXCEPT !.ret = NotReady]
    ELSE IF r.target_frame_samples = 0 THEN TakePassThrough(r)
    ELSE TakeFixed(r, alloc_ok)

\* history of a pull: the frame returned, and the progress of a drain
TakeHistory(r) ==
    LET got == r.out.buf # 0
        smp == Samples(r.bufs, r.out)
    IN  /\ last' = IF got THEN [samples |-> smp, pts |-> r.out.pts, flush |-> flush] ELSE NoLast
        /\ nemitted' = IF got THEN nemitted + Len(smp) ELSE nemitted
        /\ stamp' = IF got THEN [i \in {j \in DOMAIN stamp : j > nemitted} |-> stamp[i]] ELSE stamp
        /\ short' = (short \/ (got /\ Len(smp) < target_frame_samples))
        /\ drain_budget' = IF r.ret = NotReady THEN -1 ELSE drain_budget
        /\ drain_calls' = IF drain_budget < 0 \/ r.ret = NotReady THEN 0
                          ELSE IF drain_calls > drain_budget THEN drain_calls
                          ELSE drain_calls + 1
        /\ drain_frames' = IF drain_budget < 0 \/ r.ret = NotReady THEN 0
                           ELSE IF got /\ drain_frames <= drain_budget THEN drain_frames + 1
                           ELSE drain_frames
        /\ prev_pts' = IF got /\ ordered THEN r.out.pts ELSE prev_pts
        /\ UNCHANGED <<stage, ordered, last_in, last_end>>

\* pull; the caller keeps a returned frame while it has room, else frees it at once
TakeFrame ==
    /\ CanCall
    /\ \E alloc_ok \in (IF target_frame_samples > 0 /\ tmp_frame.buf # 0 /\ NeedOutput(R)
                        THEN BOOLEAN ELSE {TRUE}) :
          LET r == take_frame(R, alloc_ok)
              keep == r.out.buf # 0 /\ Len(held) < MaxHeld
          IN  /\ Commit(r, "pull")
              /\ bufs' = IF r.out.buf # 0 /\ ~keep THEN Unref(r.bufs, r.out.buf) ELSE r.bufs
              /\ held' = IF keep THEN Append(held, r.out) ELSE held
              /\ TakeHistory(r)

\* the consumer frees a frame it holds (av_frame_free)
Release ==
    /\ ~crashed
    /\ \E i \in 1 .. Len(held) :
          /\ bufs' = Unref(bufs, held[i].buf)
          /\ held' = SubSeq(held, 1, i - 1) \o SubSeq(held, i + 1, Len(held))
    /\ UNCHANGED <<Config, tmp_frame, output_frame, tmp_frame_capacity, offset, flush,
                   produced, op, ret, crashed, ncalls, stamp, nemitted, last, short,
                   stage, ordered, last_in, last_end, prev_pts, drain_budget,
                   drain_calls, drain_frames, timevars, ptsvars, filtervars>>

Next == PushFrame \/ PushEof \/ TakeFrame \/ Release

Spec == Init /\ [][Next]_vars

\* the same resampler, followed for MaxPriorCalls calls
NextPrior == ncalls < MaxPriorCalls /\ Next

SpecPrior == Init /\ [][NextPrior]_vars

\* ------------------------------------------------------------- src/time.c

UINT32_MAX == 2 ^ TimeBits - 1
INT64_MAX == 2 ^ (2 * TimeBits - 1) - 1
INT64_MIN == -INT64_MAX - 1

\* arguments of the calls made: n, the four uint32_t terms, the rounding mode
\* (AV_ROUND_ZERO 0, INF 1, DOWN 2, UP 3, NEAR_INF 5)
RescaleValues == {-5, 0, 7}
RescaleTerms == {0, 1, 3, UINT32_MAX}
Roundings == {0, 1, 2, 3, 5}

\* what a signed overflow can do: trap, or wrap around
Overflows == {[trap |-> TRUE], [trap |-> FALSE]}

\* two's complement value of x in int64_t
WrapInt64(x) == ((x - INT64_MIN) % (2 ^ (2 * TimeBits))) + INT64_MIN

\* x * (int64_t)y: x is converted to int64_t and the product is signed; a
\* product beyond INT64_MAX is an overflow, which is undefined
MulInt64(x, y, ub) ==
    IF x * y <= INT64_MAX THEN [trap |-> FALSE, val |-> x * y]
    ELSE [trap |-> ub.trap, val |-> WrapInt64(x * y)]

\* libavutil av_rescale_rnd(a, b, c, rnd) for a >= 0
RescalePos(a, b, c, rnd) ==
    LET r == IF rnd = 5 THEN c \div 2 ELSE IF rnd % 2 = 1 THEN c - 1 ELSE 0
        q == (a * b + r) \div c
    IN  IF q > INT64_MAX THEN INT64_MIN ELSE q

\* libavutil av_rescale_rnd(a, b, c, rnd): a * b / c under the rounding mode,
\* INT64_MIN for c <= 0, b < 0 or a result out of range
av_rescale_rnd(a, b, c, rnd) ==
    IF c <= 0 \/ b < 0 THEN INT64_MIN
    ELSE IF a < 0
         THEN LET m == IF a = INT64_MIN THEN INT64_MAX ELSE -a
                  flipped == IF rnd = 2 THEN 3 ELSE IF rnd = 3 THEN 2 ELSE rnd
              IN  WrapInt64(-RescalePos(m, b, c, flipped))
         ELSE RescalePos(a, b, c, rnd)

\* ffw_rescale_rnd; uba and ubb are what an overflow of each product does
ffw_rescale_rnd(n, aq_num, aq_den, bq_num, bq_den, rnd, uba, ubb) ==
    LET a == MulInt64(aq_num, bq_den, uba)
        b == MulInt64(bq_num, aq_den, ubb)
    IN  IF a.trap \/ b.trap
        THEN [done |-> TRUE, trap |-> TRUE, a |-> 0, b |-> 0, ret |-> 0]
        ELSE [done |-> TRUE, trap |-> FALSE, a |-> a.val, b |-> b.val,
              ret |-> av_rescale_rnd(n, a.val, b.val, rnd)]

RescaleCalls ==
    {[n |-> n, aq_num |-> an, aq_den |-> ad, bq_num |-> bn, bq_den |-> bd, rnd |-> rnd] :
        n \in RescaleValues, an \in RescaleTerms, ad \in RescaleTerms,
        bn \in RescaleTerms, bd \in RescaleTerms, rnd \in Roundings}

resamplervars == <<target_frame_samples, source_sample_rate, target_sample_rate, tmp_frame,
                   output_frame, tmp_frame_capacity, offset, flush, bufs, held, produced,
                   op, ret, crashed, ncalls, stamp, nemitted, last, short, stage,
                   ordered, last_in, last_end, prev_pts, drain_budget, drain_calls,
                   drain_frames>>

\* no resampler is in use
NoResampler ==
    /\ target_frame_samples = 0
    /\ source_sample_rate = 2 /\ target_sample_rate = 3
    /\ tmp_frame = NULL /\ output_frame = NULL
    /\ tmp_frame_capacity = 0 /\ offset = 0 /\ flush = FALSE
    /\ bufs = [b \in BufIds |-> [refs |-> 0, data |-> <<>>]]
    /\ held = <<>> /\ produced = 0
    /\ op = "new" /\ ret = 0 /\ crashed = FALSE /\ ncalls = 0
    /\ stamp = <<>> /\ nemitted = 0 /\ last = NoLast /\ short = FALSE /\ stage = 0
    /\ ordered = TRUE /\ last_in = AV_NOPTS_VALUE /\ last_end = AV_NOPTS_VALUE
    /\ prev_pts = AV_NOPTS_VALUE
    /\ drain_budget = -1 /\ drain_calls = 0 /\ drain_frames = 0

\* one call of ffw_rescale_rnd with any arguments
InitTime ==
    /\ NoResampler
    /\ rescale_call \in RescaleCalls
    /\ rescale_ret = NoResult
    /\ pts_call = NoPtsCall
    /\ pts_ret = NoPtsResult
    /\ NoFilter

RescaleRnd ==
    /\ ~rescale_ret.done
    /\ \E uba \in Overflows : \E ubb \in Overflows :
          rescale_ret' = ffw_rescale_rnd(rescale_call.n, rescale_call.aq_num,
                                         rescale_call.aq_den, rescale_call.bq_num,
                                         rescale_call.bq_den, rescale_call.rnd, uba, ubb)
    /\ UNCHANGED <<resamplervars, rescale_call, ptsvars, filtervars>>

NextTime == RescaleRnd

SpecTime == InitTime /\ [][NextTime]_vars

\* ------------------------------------------- timestamp arithmetic of push

\* timestamps of pushed frames, sample rates and compensations tried
PtsValues == (-7 .. 7) \cup {-50, 50}
PtsRates == {2, 3}
PtsShifts == {-1, 0, 1}

PtsCalls ==
    {[pts |-> p, source_sample_rate |-> sr, target_sample_rate |-> tr, shift |-> sh] :
        p \in PtsValues, sr \in PtsRates, tr \in PtsRates \cup {4}, sh \in PtsShifts}

InitPts ==
    /\ NoResampler
    /\ rescale_call = NoCall
    /\ rescale_ret = NoResult
    /\ pts_call \in PtsCalls
    /\ pts_ret = NoPtsResult
    /\ NoFilter

\* lines 193-203 of push for a frame with the timestamp of pts_call
SetPts ==
    /\ ~pts_ret.done
    /\ pts_ret' = [done |-> TRUE,
                   orig_pts |-> OrigPts(pts_call, pts_call.pts),
                   new_pts |-> swr_next_pts(OrigPts(pts_call, pts_call.pts), pts_call.shift),
                   pts |-> BatchPts(pts_call, pts_call.pts, pts_call.shift)]
    /\ UNCHANGED <<resamplervars, timevars, pts_call, filtervars>>

NextPts == SetPts

SpecPts == InitPts /\ [][NextPts]_vars

\* ------------------------------------------- src/codec/audio/filter.c

\* frames the graph delivers to its sink
MaxFed == 3

\* AVERROR_EOF, AVERROR(EAGAIN) and AVERROR(ENOMEM)
AVERROR_EOF == -541478725
AVERROR_EAGAIN == -11
AVERROR_ENOMEM == -12

\* av_buffersink_get_frame is opaque: it moves the oldest waiting frame into
\* frame and answers 0, answers AVERROR(EAGAIN) with nothing waiting,
\* AVERROR_EOF with nothing waiting after the end of the stream, or fails
av_buffersink_get_frame(s, frame, sink_ok) ==
    IF ~sink_ok THEN [ret |-> AVERROR_ENOMEM, sink |-> s, frame |-> frame]
    ELSE IF Len(s.frames) > 0
    THEN [ret |-> 0, sink |-> [s EXCEPT !.frames = Tail(@)],
          frame |-> [null |-> FALSE, data |-> Head(s.frames)]]
    ELSE [ret |-> IF s.eof THEN AVERROR_EOF ELSE AVERROR_EAGAIN, sink |-> s, frame |-> frame]

\* ffw_filtergraph_take_frame(graph, frame); has_slot is frame != NULL and f is
\* *frame. answer is what the sink said (1 when it was not asked), received the
\* data of the frame the sink delivered in this call (0 for none), frame the
\* value of *frame at the return
ffw_filtergraph_take_frame(s, has_slot, f, alloc_ok, sink_ok) ==
    IF ~has_slot
    THEN [sink |-> s, slot |-> f,
          take |-> [done |-> TRUE, ret |-> -1, fail |-> "slot", answer |-> 1, received |-> 0,
                    frame |-> f]]
    ELSE
    LET f1 == IF f.null THEN (IF alloc_ok THEN BlankAVFrame ELSE NullAVFrame) ELSE f
    IN  IF f1.null
        THEN [sink |-> s, slot |-> f1,
              take |-> [done |-> TRUE, ret |-> 1, fail |-> "alloc", answer |-> 1,
                        received |-> 0, frame |-> f1]]
        ELSE
        LET g == av_buffersink_get_frame(s, f1, sink_ok)
            t == [done |-> TRUE, ret |-> 0, answer |-> g.ret,
                  fail |-> IF g.ret < 0 /\ g.ret \notin {AVERROR_EOF, AVERROR_EAGAIN}
                           THEN "sink" ELSE "none",
                  received |-> IF g.ret >= 0 THEN g.frame.data ELSE 0,
                  frame |-> g.frame]
        IN  IF g.ret = AVERROR_EOF \/ g.ret = AVERROR_EAGAIN
            THEN [sink |-> g.sink, slot |-> g.frame, take |-> [t EXCEPT !.ret = 0]]
            ELSE IF g.ret < 0
            THEN [sink |-> g.sink, slot |-> g.frame, take |-> [t EXCEPT !.ret = g.ret]]
            ELSE [sink |-> g.sink, slot |-> g.frame, take |-> [t EXCEPT !.ret = 1]]

\* a filter graph set up, nothing in its sink, the caller's frame variable NULL
InitFilter ==
    /\ NoResampler
    /\ rescale_call = NoCall
    /\ rescale_ret = NoResult
    /\ pts_call = NoPtsCall
    /\ pts_ret = NoPtsResult
    /\ NoFilter

\* the graph delivers its next frame to the sink
SinkFeed ==
    /\ fed < MaxFed
    /\ ~sink.eof
    /\ fed' = fed + 1
    /\ sink' = [sink EXCEPT !.frames = Append(@, fed + 1)]
    /\ UNCHANGED <<resamplervars, timevars, ptsvars, slot, take>>

\* the stream ends
SinkEof ==
    /\ ~sink.eof
    /\ sink' = [sink EXCEPT !.eof = TRUE]
    /\ UNCHANGED <<resamplervars, timevars, ptsvars, fed, slot, take>>

\* a call of ffw_filtergraph_take_frame, with a null pointer or with the
\* address of the caller's frame variable
FilterTakeFrame ==
    /\ \E has_slot \in BOOLEAN :
       \E alloc_ok \in (IF has_slot /\ slot.null THEN BOOLEAN ELSE {TRUE}) :
       \E sink_ok \in (IF has_slot /\ (~slot.null \/ alloc_ok) THEN BOOLEAN ELSE {TRUE}) :
          LET c == ffw_filtergraph_take_frame(sink, has_slot, slot, alloc_ok, sink_ok)
          IN  /\ sink' = c.sink
              /\ slot' = c.slot
              /\ take' = c.take
    /\ UNCHANGED <<resamplervars, timevars, ptsvars, fed>>

\* the caller frees its frame (av_frame_free)
FilterFreeFrame ==
    /\ ~slot.null
    /\ slot' = NullAVFrame
    /\ UNCHANGED <<resamplervars, timevars, ptsvars, sink, fed, take>>

NextFilter == SinkFeed \/ SinkEof \/ FilterTakeFrame \/ FilterFreeFrame

SpecFilter == InitFilter /\ [][NextFilter]_vars

\* ----------------------------------------------------------- properties

Fixed == target_frame_samples > 0

\* the last call was a pull that returned a frame (it is in last)
Emitted == op = "pull" /\ ret = 1

\* this step is a call of push / of pull
PushStep == ncalls' # ncalls /\ op' \in {"push", "push_eof"}
PullStep == ncalls' # ncalls /\ op' = "pull"

\* samples of the scratch frame not read yet, and samples accumulated
Unread ==
    IF tmp_frame.buf = 0 THEN <<>>
    ELSE SubSeq(bufs[tmp_frame.buf].data, offset + 1, tmp_frame.nb_samples)
Accumulated == Samples(bufs, output_frame)

TypeOK ==
    /\ offset \in 0 .. MaxProduced
    /\ produced \in 0 .. MaxProduced
    /\ flush \in BOOLEAN

\* C1: a push (real frame or end of input) that finds unread samples in the
\* scratch frame returns NotReady and changes nothing of the resampler: not the
\* scratch frame, its contents, the read cursor, the capacity, the accumulation
\* frame, nor the flushing flag.
C1_RejectedPushChangesNothing ==
    [][(tmp_frame.buf # 0 /\ offset < tmp_frame.nb_samples /\ PushStep)
        => (/\ ret' = NotReady
            /\ ~crashed'
            /\ UNCHANGED <<tmp_frame, output_frame, tmp_frame_capacity, offset, flush,
                           bufs, produced>>)]_vars

C1_Witness ==
    /\ op = "push_eof" /\ ret = NotReady
    /\ tmp_frame.buf # 0 /\ offset < tmp_frame.nb_samples
    /\ ~flush

\* C2: no sample is lost, duplicated or reordered: the samples of the frames
\* returned so far, then those in the accumulation frame, then the unread part
\* of the scratch frame are the samples converted so far, in order.  (Samples
\* are numbered as they are converted; nemitted of them have been returned.)
C2_NoSampleLost ==
    /\ Accumulated \o Unread = [i \in 1 .. (produced - nemitted) |-> nemitted + i]
    /\ last.samples = [i \in 1 .. Len(last.samples) |-> nemitted - Len(last.samples) + i]

C2_Witness ==
    /\ Emitted /\ Len(last.samples) > 0
    /\ Len(Unread) > 0
    /\ nemitted + Len(Unread) = produced

\* C3: with a fixed frame size, a frame shorter than the frame size is returned
\* only while flushing, and when the pushes end with one end of input no frame
\* is returned after a shorter one.
C3_FixedFrameSize ==
    /\ []((Fixed /\ Emitted /\ Len(last.samples) < target_frame_samples) => last.flush)
    /\ [][(Fixed /\ short /\ stage' \in {1, 3} /\ PullStep) => ret' # 1]_vars

C3_Witness ==
    /\ Fixed /\ stage = 1 /\ Emitted
    /\ Len(last.samples) = 1 /\ nemitted = 3

\* C4: a frame pushed with unknown timestamp gives a batch with unknown
\* timestamp, and every frame returned whose first sample is of that batch has
\* the unknown timestamp.
C4_UnknownPtsPropagated ==
    /\ (op = "push" /\ ret = Consumed /\ ~crashed /\ tmp_frame.nb_samples > 0
            /\ stamp[produced] = AV_NOPTS_VALUE)
        => tmp_frame.pts = AV_NOPTS_VALUE
    /\ (Emitted /\ stage = 0 /\ Len(last.samples) > 0
            /\ stamp[last.samples[1]] = AV_NOPTS_VALUE)
        => last.pts = AV_NOPTS_VALUE

\* C5: every push completes, with Consumed, NotReady or a negative error; an
\* end of input that passes the precondition and meets no capability error is
\* consumed, with the flushing flag set and the read cursor at 0.
C5_PushCompletes ==
    /\ ~crashed
    /\ op \in {"push", "push_eof"} => (ret \in {Consumed, NotReady} \/ ret < 0)
    /\ (op = "push_eof" /\ ret = Consumed) => (flush /\ offset = 0)

C7_Conservation ==
    (stage = 1 /\ op = "pull" /\ ret = NotReady)
        => /\ nemitted = produced
           /\ offset >= tmp_frame.nb_samples
           /\ output_frame.nb_samples = 0
           /\ ~flush

C7_Witness ==
    /\ stage = 1 /\ op = "pull" /\ ret = NotReady
    /\ Fixed /\ short /\ nemitted = 1

\* C8: in pass-through mode a pull that finds a batch returns one frame with the
\* whole batch and its timestamp and empties the scratch frame; a pull that
\* finds none returns NotReady; and a push that follows is not rejected.
C8_PassThrough ==
    /\ [][(~Fixed /\ tmp_frame.nb_samples > 0 /\ PullStep)
            => (/\ ret' = 1
                /\ last'.samples = Samples(bufs, tmp_frame)
                /\ last'.pts = tmp_frame.pts
                /\ tmp_frame'.nb_samples = 0)]_vars
    /\ [][(~Fixed /\ tmp_frame.nb_samples = 0 /\ PullStep) => ret' = NotReady]_vars
    /\ [][(~Fixed /\ op = "pull" /\ PushStep) => (crashed' \/ ret' # NotReady)]_vars

C8_Witness ==
    /\ ~Fixed /\ Emitted
    /\ Len(last.samples) = 3 /\ last.pts = 3
    /\ tmp_frame.nb_samples = 0

\* C9: with a fixed frame size, a returned frame has the time of its first
\* sample (batch timestamp plus the sample's index in the batch) when that is
\* known, and so has the accumulation frame while it holds samples.
C9_FramePts ==
    /\ (Fixed /\ Emitted /\ Len(last.samples) > 0
            /\ stamp[last.samples[1]] # AV_NOPTS_VALUE)
        => last.pts = stamp[last.samples[1]]
    /\ (Fixed /\ output_frame.nb_samples > 0 /\ stamp[Accumulated[1]] # AV_NOPTS_VALUE)
        => output_frame.pts = stamp[Accumulated[1]]

C9_Witness ==
    /\ Fixed /\ Emitted
    /\ last.samples = <<3>> /\ last.pts = 5

\* C10: while the frames pushed have known, increasing timestamps and their
\* batches do not overlap, and no end of input was pushed, the timestamps of
\* the frames returned do not decrease.
C10_PtsMonotone ==
    [][(ordered /\ PullStep /\ ret' = 1) => last'.pts >= prev_pts]_vars

C10_Witness ==
    /\ ordered /\ Emitted /\ Fixed
    /\ last_in = 2
    /\ nemitted > Len(last.samples)

\* the arguments and capability answers of a push that gets as far as allocating
PushArgs ==
    {[frame |-> f, required_capacity |-> c, conv |-> n, ub |-> [trap |-> FALSE, pts |-> 0]] :
        f \in InputFrames, c \in 2 .. 3, n \in 0 .. 2}
    \cup
    {[frame |-> NoFrame, required_capacity |-> d + FlushMargin, conv |-> n, ub |-> u] :
        d \in Delays, n \in 0 .. 2, u \in NullReads}

\* C11: a push or pull in which the allocation fails returns -1 and loses no
\* sample: the failing push found the scratch frame fully read and leaves the
\* accumulation frame alone, the failing pull found the accumulation frame empty
\* and leaves the scratch frame, cursor and flag alone; and the same call made
\* again with the allocation succeeding gives what the call would have given had
\* the allocation succeeded at once (for an end of input, under the same outcome
\* of the read of frame->pts).
C11_AllocFailureRecoverable ==
    /\ [][(PushStep /\ ~crashed' /\ ret' = AllocError)
            => (/\ Unread = <<>>
                /\ tmp_frame' = NULL
                /\ Accumulated' = Accumulated
                /\ UNCHANGED <<output_frame, offset, produced, nemitted, held>>)]_vars
    /\ [][(PullStep /\ ret' = AllocError)
            => (/\ Accumulated = <<>>
                /\ output_frame' = NULL
                /\ Unread' = Unread
                /\ UNCHANGED <<tmp_frame, tmp_frame_capacity, offset, flush, produced,
                               nemitted, held>>)]_vars
    /\ []((~crashed /\ ~PushRejected(R)) =>
            \A a \in PushArgs :
                LET failed == push_frame(R, a.frame, a.required_capacity, FALSE, a.conv, 0, a.ub)
                    again == push_frame(failed, a.frame, a.required_capacity, TRUE, a.conv, 0, a.ub)
                    atonce == push_frame(R, a.frame, a.required_capacity, TRUE, a.conv, 0, a.ub)
                IN  failed.ret = AllocError =>
                        IF atonce.crashed THEN again.crashed
                        ELSE again = atonce)
    /\ []((~crashed /\ Fixed /\ tmp_frame.buf # 0) =>
            LET failed == take_frame(R, FALSE)
                again == take_frame(failed, TRUE)
                atonce == take_frame(R, TRUE)
            IN  failed.ret = AllocError => again = atonce)

C11_Witness ==
    /\ op = "pull" /\ ret = AllocError
    /\ Len(Unread) > 0 /\ flush
    /\ output_frame = NULL /\ Len(held) > 0

\* C12: for all uint32_t arguments the two products of ffw_rescale_rnd,
\* computed in int64_t, are the mathematical products, and the result is
\* n * (aq_num * bq_den) / (bq_num * aq_den) under the rounding mode.
C12_ProductsExact ==
    rescale_ret.done =>
        /\ ~rescale_ret.trap
        /\ rescale_ret.a = rescale_call.aq_num * rescale_call.bq_den
        /\ rescale_ret.b = rescale_call.bq_num * rescale_call.aq_den
        /\ rescale_ret.ret = av_rescale_rnd(rescale_call.n,
                                            rescale_call.aq_num * rescale_call.bq_den,
                                            rescale_call.bq_num * rescale_call.aq_den,
                                            rescale_call.rnd)

\* C13: a pull that finds no scratch frame (before any push, or after pushes
\* that left none) returns NotReady in both modes, allocates no accumulation
\* frame, hands the caller no frame and changes nothing of the resampler.
C13_PullWithoutScratch ==
    [][(tmp_frame.buf = 0 /\ PullStep)
        => (/\ ret' = NotReady
            /\ last' = NoLast
            /\ UNCHANGED <<tmp_frame, output_frame, tmp_frame_capacity, offset, flush,
                           bufs, held, produced, nemitted>>)]_vars

C13_Witness ==
    /\ op = "pull" /\ ret = NotReady
    /\ tmp_frame = NULL
    /\ Fixed /\ flush /\ output_frame.nb_samples > 0

\* C14 as claimed: a pull that returns NotReady leaves no unread samples, so
\* the push after it is not rejected; and the pull after a rejected push returns
\* a frame or moves at least one sample out of the scratch frame.
C14_NoDeadlock ==
    /\ []((op = "pull" /\ ret = NotReady) => Unread = <<>>)
    /\ [][(op = "pull" /\ ret = NotReady /\ PushStep) => (crashed' \/ ret' # NotReady)]_vars
    /\ [][(op \in {"push", "push_eof"} /\ ret = NotReady /\ PullStep)
            => (ret' = 1 \/ offset' > offset)]_vars

\* C14, amended: as claimed, except that the pull after a rejected push can
\* also fail to allocate the accumulation frame; it then returns -1 and leaves
\* the scratch frame, the read cursor and the flush flag as they were.
C14_NoDeadlockUnlessAllocFails ==
    /\ []((op = "pull" /\ ret = NotReady) => Unread = <<>>)
    /\ [][(op = "pull" /\ ret = NotReady /\ PushStep) => (crashed' \/ ret' # NotReady)]_vars
    /\ [][(op \in {"push", "push_eof"} /\ ret = NotReady /\ PullStep)
            => \/ ret' = 1
               \/ offset' > offset /\ Len(Accumulated') > Len(Accumulated)
               \/ /\ ret' = AllocError
                  /\ Unread' = Unread
                  /\ UNCHANGED <<tmp_frame, offset, flush>>]_vars

C14_Witness ==
    /\ op = "push" /\ ret = NotReady
    /\ Fixed /\ Len(Unread) > 0
    /\ output_frame.buf # 0 /\ ~av_frame_is_writable(bufs, output_frame)

\* C15: with a fixed frame size a pull clears a set flushing flag exactly when
\* it returns a frame and leaves the scratch frame fully read, otherwise the
\* flag stays set; a frame shorter than the frame size is returned only by a
\* pull that leaves the scratch frame fully read; and once a consumed end of
\* input has its flag cleared, no sample is left in the scratch frame or the
\* accumulation frame.
C15_FlushFlag ==
    /\ [][(Fixed /\ flush /\ PullStep)
            => (flush' <=> ~(ret' = 1 /\ offset' >= tmp_frame'.nb_samples))]_vars
    /\ [][(Fixed /\ ~flush /\ PullStep) => ~flush']_vars
    /\ [][(Fixed /\ PullStep /\ ret' = 1 /\ Len(last'.samples) < target_frame_samples)
            => offset' >= tmp_frame'.nb_samples]_vars
    /\ []((Fixed /\ stage = 1 /\ ~flush) => (Unread = <<>> /\ Accumulated = <<>>))

C15_Witness ==
    /\ Fixed /\ stage = 1 /\ Emitted
    /\ flush /\ last.flush
    /\ Len(Unread) > 0

\* C16: no push and no pull changes the samples of a frame the consumer holds.
C16_HeldFramesUntouched ==
    [][(PushStep \/ PullStep)
        => \A i \in 1 .. Len(held) :
              /\ held'[i] = held[i]
              /\ Samples(bufs', held[i]) = Samples(bufs, held[i])]_vars

C16_Witness ==
    /\ Len(held) = 1 /\ Len(Samples(bufs, held[1])) > 0
    /\ op = "push" /\ ret = Consumed /\ ~crashed
    /\ tmp_frame.nb_samples > 0
    /\ tmp_frame_capacity = 2 /\ produced = 4

\* the scratch frame of r1 is not the buffer r0 had: there was none, or the
\* resampler gave up its reference to it, or the buffer has another size
Replaced(r0, r1) ==
    \/ r0.tmp_frame.buf = 0
    \/ r1.bufs[r0.tmp_frame.buf].refs < r0.bufs[r0.tmp_frame.buf].refs
    \/ r1.tmp_frame.buf = 0
    \/ Len(r1.bufs[r1.tmp_frame.buf].data) # Len(r0.bufs[r0.tmp_frame.buf].data)

\* C17: an accepted push replaces the scratch frame exactly when there is
\* none, or it is shared, or the required capacity exceeds the recorded one;
\* a replaced frame has the required capacity, which is then recorded (a failed
\* allocation leaves no scratch frame); otherwise the buffer and the recorded
\* capacity stay; and the conversion finds sample count and read cursor at 0.
C17_ReallocPolicy ==
    (~crashed /\ ~PushRejected(R)) =>
        \A a \in PushArgs : \A alloc_ok \in BOOLEAN :
            LET r1 == push_frame(R, a.frame, a.required_capacity, alloc_ok, a.conv, 0, a.ub)
                needed == \/ tmp_frame.buf = 0
                          \/ bufs[tmp_frame.buf].refs > 1
                          \/ a.required_capacity > tmp_frame_capacity
            IN  /\ needed <=> Replaced(R, r1)
                /\ (needed /\ alloc_ok) =>
                        /\ r1.tmp_frame_capacity = a.required_capacity
                        /\ Len(r1.bufs[r1.tmp_frame.buf].data) = a.required_capacity
                        /\ r1.bufs[r1.tmp_frame.buf].refs = 1
                /\ (needed /\ ~alloc_ok) =>
                        /\ r1.tmp_frame = NULL
                        /\ r1.ret = AllocError
                /\ ~needed =>
                        /\ r1.tmp_frame.buf = tmp_frame.buf
                        /\ r1.tmp_frame_capacity = tmp_frame_capacity
                /\ r1.tmp_frame.buf # 0 =>
                        /\ r1.offset = 0
                        /\ r1.tmp_frame.nb_samples = a.conv
                        /\ Samples(r1.bufs, r1.tmp_frame) = [i \in 1 .. a.conv |-> produced + i]

\* an accepted push has reused the buffer: a sample of the batch before is
\* still behind the new batch
C17_Witness ==
    /\ op = "push" /\ ret = Consumed
    /\ tmp_frame.nb_samples = 1
    /\ bufs[tmp_frame.buf].data[2] # 0

\* C18: whenever there is a scratch frame, the read cursor is between 0 and the
\* sample count of the scratch frame.
C18_CursorInBatch ==
    tmp_frame.buf # 0 => (0 <= offset /\ offset <= tmp_frame.nb_samples)

C18_Witness ==
    /\ Fixed /\ op = "pull" /\ ret = 1
    /\ 0 < offset /\ offset < tmp_frame.nb_samples

\* C19: with a fixed frame size the accumulation frame, when there is one,
\* holds fewer samples than the frame size after every call; a pull that fills
\* it returns it, with exactly the frame size, and resets the count; and no
\* returned frame is longer than the frame size.
C19_AccumulationBelowSize ==
    /\ (Fixed /\ output_frame.buf # 0)
        => (0 <= output_frame.nb_samples /\ output_frame.nb_samples < target_frame_samples)
    /\ (Fixed /\ Emitted)
        => (Len(last.samples) <= target_frame_samples /\ output_frame.nb_samples = 0)
    /\ (Fixed /\ op = "pull" /\ ret = NotReady /\ tmp_frame.buf # 0)
        => Len(Accumulated) + Len(Unread) < target_frame_samples

C19_Witness ==
    /\ Fixed /\ Emitted /\ ~last.flush
    /\ Len(last.samples) = target_frame_samples
    /\ output_frame.nb_samples = 0 /\ nemitted = 4

\* q / s rounded to nearest, halves away from zero
RoundHalfAway(q, s) ==
    IF q >= 0 THEN (2 * q + s) \div (2 * s) ELSE -((2 * (-q) + s) \div (2 * s))

\* C20: for a frame with known timestamp p whose product with the target rate
\* fits the timestamp type, push passes p * target_rate to swr_next_pts and
\* sets the batch timestamp to the capability's result divided by the source
\* rate, rounded to nearest with halves away from zero; with a capability that
\* returns its argument this is round(p * target_rate / source_rate).
C20_BatchPts ==
    (/\ pts_ret.done
     /\ pts_call.pts * pts_call.target_sample_rate < -AV_NOPTS_VALUE - pts_call.source_sample_rate
     /\ pts_call.pts * pts_call.target_sample_rate > AV_NOPTS_VALUE + pts_call.source_sample_rate)
        => /\ pts_ret.orig_pts = pts_call.pts * pts_call.target_sample_rate
           /\ pts_ret.pts = RoundHalfAway(pts_ret.new_pts, pts_call.source_sample_rate)
           /\ pts_call.shift = 0
                => pts_ret.pts = RoundHalfAway(pts_call.pts * pts_call.target_sample_rate,
                                               pts_call.source_sample_rate)

\* -1.5 becomes -2
C20_Witness ==
    /\ pts_ret.done
    /\ pts_call.pts = -1 /\ pts_call.target_sample_rate = 3
    /\ pts_call.source_sample_rate = 2 /\ pts_call.shift = 0
    /\ pts_ret.orig_pts = -3 /\ pts_ret.pts = -2

\* C21: every pull that returns a frame hands out a frame with at least one
\* sample, in pass-through and in fixed-size mode, also while flushing with the
\* batch drained and nothing accumulated, and after repeated ends of input.
C21_NoEmptyFrame == Emitted => Len(last.samples) > 0

\* C22: ffw_filtergraph_take_frame returns 1 only when the caller's slot holds
\* a frame received from the sink in that call; it returns 0 when the sink
\* reports end of stream or try-again; it returns a negative value on every
\* failure: a null slot pointer, a failed allocation for an empty slot, an
\* error of the sink.
C22_FilterTakeResult ==
    take.done =>
        /\ take.ret = 1 => /\ ~take.frame.null
                            /\ take.received > 0
                            /\ take.frame.data = take.received
        /\ take.answer \in {AVERROR_EOF, AVERROR_EAGAIN} => take.ret = 0
        /\ take.fail # "none" => take.ret < 0

====
